---- MODULE Spec2Model ----
(***************************************************************************)
(* Model of spyral/_camera.py: the Camera class (viewports and the root    *)
(* compositor), its blit / static-blit bookkeeping, the dirty-rectangle    *)
(* draw pass and the per-scene save and restore of static blits and        *)
(* backgrounds.                                                            *)
(***************************************************************************)
EXTENDS Integers, Sequences, FiniteSets, TLC

VARIABLES cams, surface, background, blits, clear_this_frame,
          clear_next_frame, soft_clear, static_blits, saved_blits,
          backgrounds, running, last

vars == <<cams, surface, background, blits, clear_this_frame,
          clear_next_frame, soft_clear, static_blits, saved_blits,
          backgrounds, running, last>>

(***************************************************************************)
(* Bounds of the model.                                                    *)
(***************************************************************************)
MaxBlits == 1
MaxClear == 1
MaxCams == 3
MaxPasses == 4

(***************************************************************************)
(* Values the operations are called with.                                  *)
(***************************************************************************)
\* None is the empty tuple; an optional rectangle is <<>> or <<rect>>
NoValue == <<>>
NoScene == "None"
DisplaySize == <<2, 2>>
Images == {"A", "B"}
BackgroundImages == {"A", "C"}
Sprites == {"s1", "s2"}
Scenes == {"S", "T"}
Layers == {1, 2}

ImageSize(i) ==
  CASE i = "A" -> <<1, 1>>
    [] i = "B" -> <<2, 1>>
    [] i = "C" -> <<2, 2>>
    [] i = "D" -> <<1, 2>>

(***************************************************************************)
(* pygame.Rect, as the code uses it.                                       *)
(***************************************************************************)
Rect(x, y, w, h) == [x |-> x, y |-> y, w |-> w, h |-> h]

RectAt(pos, size) == Rect(pos[1], pos[2], size[1], size[2])

Max(a, b) == IF a >= b THEN a ELSE b

Min(a, b) == IF a <= b THEN a ELSE b

Contains(a, b) ==
  /\ a.x <= b.x /\ a.y <= b.y
  /\ a.x + a.w >= b.x + b.w /\ a.y + a.h >= b.y + b.h
  /\ a.x + a.w > b.x /\ a.y + a.h > b.y

Collide(a, b) ==
  /\ a.x < b.x + b.w /\ a.y < b.y + b.h
  /\ a.x + a.w > b.x /\ a.y + a.h > b.y

ClipStrict(a, b) == Rect(Max(a.x, b.x), Max(a.y, b.y),
                         Min(a.x + a.w, b.x + b.w) - Max(a.x, b.x),
                         Min(a.y + a.h, b.y + b.h) - Max(a.y, b.y))

Clip(a, b) ==
  LET r == ClipStrict(a, b)
  IN IF r.w > 0 /\ r.h > 0 THEN r ELSE Rect(a.x, a.y, 0, 0)

Move(r, dx, dy) == Rect(r.x + dx, r.y + dy, r.w, r.h)

Union(a, b) == Rect(Min(a.x, b.x), Min(a.y, b.y),
                    Max(a.x + a.w, b.x + b.w) - Min(a.x, b.x),
                    Max(a.y + a.h, b.y + b.h) - Min(a.y, b.y))

Pixels(r) == {p \in (r.x .. r.x + r.w - 1) \X (r.y .. r.y + r.h - 1) : TRUE}

(***************************************************************************)
(* Scale factors are the floats rsize / vsize; they are kept as exact      *)
(* fractions <<numerator, denominator>> per axis.                          *)
(***************************************************************************)
UnitScale == <<<<1, 1>>, <<1, 1>>>>

Trunc(n, d) == IF n >= 0 THEN n \div d ELSE -((-n) \div d)

Ceil(n, d) == -((-n) \div d)

Gcd(a, b) == CHOOSE g \in 1..Max(a, b) :
               /\ a % g = 0 /\ b % g = 0
               /\ \A k \in 1..Max(a, b) : (a % k = 0 /\ b % k = 0) => k <= g

Frac(n, d) == <<n \div Gcd(n, d), d \div Gcd(n, d)>>

ScaleOfInverted(rsize, vsize) == <<Frac(vsize[1], rsize[1]), Frac(vsize[2], rsize[2])>>

\* lines 58-59: true division (from __future__ import division)
ScaleOf(rsize, vsize) == <<Frac(rsize[1], vsize[1]), Frac(rsize[2], vsize[2])>>

Vec2DMul(s, t) == <<Frac(s[1][1] * t[1][1], s[1][2] * t[1][2]),
                    Frac(s[2][1] * t[2][1], s[2][2] * t[2][2])>>

PointScale(p, s) == <<Trunc(p[1] * s[1][1], s[1][2]), Trunc(p[2] * s[2][1], s[2][2])>>

ScaledSize(size, s) ==
  IF s = UnitScale THEN size
  ELSE <<Ceil(size[1] * s[1][1], s[1][2]), Ceil(size[2] * s[2][1], s[2][2])>>

(***************************************************************************)
(* Surfaces.  A surface is an image together with the area of the scaled   *)
(* image it shows (subsurface keeps the parent's pixels); the display      *)
(* surface is a map from pixels to the image last copied there.            *)
(***************************************************************************)
WholeSurface(img, size) == [img |-> img, area |-> Rect(0, 0, size[1], size[2])]

Subsurface(s, y) == [img |-> s.img, area |-> Move(y, s.area.x, s.area.y)]

SurfaceRect(s) == Rect(0, 0, s.area.w, s.area.h)

DisplayRect == RectAt(<<0, 0>>, DisplaySize)

FreshBackground(rsize) == [img |-> "white", size |-> rsize]

BackgroundRect(b) == RectAt(<<0, 0>>, b.size)

Paint(scr, r, img) == [p \in DOMAIN scr |-> IF p \in Pixels(r) THEN img ELSE scr[p]]

BlitAxis(srcpos, len, srclen, dstpos, cliplen) ==
  LET w1 == IF srcpos < 0 THEN len + srcpos ELSE len
      d1 == IF srcpos < 0 THEN dstpos - srcpos ELSE dstpos
      s1 == IF srcpos < 0 THEN 0 ELSE srcpos
      w2 == Min(w1, srclen - s1)
      w3 == IF d1 < 0 THEN w2 + d1 ELSE w2
      d3 == IF d1 < 0 THEN 0 ELSE d1
      w4 == IF d3 + w3 > cliplen THEN cliplen - d3 ELSE w3
  IN <<d3, w4>>

\* surface.blit(source, dest, area): the rectangle of the display it changed
BlitRect(src, dest, region) ==
  LET a == IF region = NoValue THEN SurfaceRect(src) ELSE region[1]
      h == BlitAxis(a.x, a.w, src.area.w, dest.x, DisplaySize[1])
      v == BlitAxis(a.y, a.h, src.area.h, dest.y, DisplaySize[2])
  IN IF h[2] > 0 /\ v[2] > 0 THEN Rect(h[1], v[1], h[2], v[2])
     ELSE Rect(dest.x, dest.y, 0, 0)

(***************************************************************************)
(* _Blit and Camera objects.                                               *)
(***************************************************************************)
NewBlit(surf, rect, layer, flags, static, clipping) ==
  [surface |-> surf, rect |-> rect, layer |-> layer, flags |-> flags,
   static |-> static, clipping |-> clipping]

\* _Blit declares __slots__ and no __getitem__: indexing an instance raises
BlitItem(b, i) == "TypeError"

\* only the attributes named in __slots__ can be read
BlitAttr(b, name) ==
  IF name \in {"surface", "rect", "layer", "flags", "static", "clipping"}
  THEN b[name] ELSE "AttributeError"

IsUnset(size) == size = NoValue \/ size = <<0, 0>>

Camera(virtual_size, real_size, root) ==
  LET rsize == IF root /\ IsUnset(real_size) THEN DisplaySize ELSE real_size
      vsize == IF IsUnset(virtual_size) THEN rsize ELSE virtual_size
  IN [root |-> root, rsize |-> rsize, vsize |-> vsize,
      scale |-> IF IsUnset(virtual_size) THEN UnitScale ELSE ScaleOf(rsize, vsize),
      rect |-> DisplayRect, parent |-> 0]

\* `self` is the parent camera, `p` its place in cams
make_child(self, p, virtual_size, real_size) ==
  LET real == IF IsUnset(real_size) THEN self.vsize ELSE real_size
      y == Camera(virtual_size, real, FALSE)
  IN [y EXCEPT !.parent = p,
               !.scale = Vec2DMul(self.scale, y.scale),
               !.rect = RectAt(<<0, 0>>, PointScale(real, self.scale))]

\* lines 127-139 and 149-164: scale, then clip against the camera's bounds
ScaledRect(c, img, pos) ==
  RectAt(PointScale(pos, cams[c].scale), ScaledSize(ImageSize(img), cams[c].scale))

PlacementNeverOutside(bounds, r) ==
  IF Contains(bounds, r) THEN "inside" ELSE "partial"

\* lines 131-139: contained, overlapping, or neither (the call returns)
Placement(bounds, r) ==
  IF Contains(bounds, r) THEN "inside"
  ELSE IF Collide(bounds, r) THEN "partial" ELSE "outside"

SourceAreaUnshifted(x, r) == x

\* line 135: the clipped rectangle in the coordinates of the scaled surface
SourceArea(x, r) == Move(x, -r.x, -r.y)

ClipToCamera(c, img, pos) ==
  LET new_surface == WholeSurface(img, ScaledSize(ImageSize(img), cams[c].scale))
      r == ScaledRect(c, img, pos)
      x == Clip(r, cams[c].rect)
      y == SourceArea(x, r)
      kind == Placement(cams[c].rect, r)
  IN IF kind = "inside"
     THEN [kind |-> "inside", surface |-> new_surface, rect |-> r]
     ELSE IF kind = "partial"
          THEN [kind |-> "partial", surface |-> Subsurface(new_surface, y), rect |-> x]
          ELSE [kind |-> "outside"]

(***************************************************************************)
(* The draw pass, Camera._draw.                                            *)
(***************************************************************************)
RECURSIVE Restore(_, _, _, _, _)
\* lines 201-205: the background over every rectangle of the two lists
Restore(scr, rects, bg, k, restored) ==
  IF k > Len(rects) THEN [scr |-> scr, restored |-> restored]
  ELSE Restore(Paint(scr, Clip(BackgroundRect(bg), rects[k]), bg.img), rects, bg, k + 1,
               Append(restored, Clip(BackgroundRect(bg), rects[k])))

InsertBeforeEqual(sorted, b) ==
  LET n == Cardinality({k \in 1..Len(sorted) : sorted[k].layer < b.layer})
  IN SubSeq(sorted, 1, n) \o <<b>> \o SubSeq(sorted, n + 1, Len(sorted))

\* where the stable sort of line 212 puts a record among those already sorted
Insert(sorted, b) ==
  LET n == Cardinality({k \in 1..Len(sorted) : sorted[k].layer <= b.layer})
  IN SubSeq(sorted, 1, n) \o <<b>> \o SubSeq(sorted, n + 1, Len(sorted))

RECURSIVE SortFrom(_, _, _)
SortFrom(seq, k, sorted) ==
  IF k > Len(seq) THEN sorted ELSE SortFrom(seq, k + 1, Insert(sorted, seq[k]))

\* line 212: list.sort(key=attrgetter('layer')), a stable ascending sort
SortByLayer(seq) == SortFrom(seq, 1, <<>>)

\* the orders in which dict.values() may list the entries of a dict
Orderings(S) ==
  {o \in [1..Cardinality(S) -> S] : \A a, b \in 1..Cardinality(S) : o[a] = o[b] => a = b}

Values(d, o) == [k \in 1..Len(o) |-> d[o[k]]]

HitsAlways(r, rects) == TRUE

\* lines 241-242 and 251-252: the record's rectangle collides with one of the list
Hits(r, rects) == \E k \in 1..Len(rects) : Collide(r, rects[k])

ScheduleNothing(clear_next, r) == clear_next

\* lines 260 and 266: clear_next.append(r)
Schedule(clear_next, r) == Append(clear_next, r)

KeepSoftForNextPass(a, rect) == [a EXCEPT !.new_soft = Append(@, rect)]

\* line 254: soft_clear names the list of the previous pass (line 225), not the
\* new self._soft_clear of line 226
KeepSoft(a, rect) == [a EXCEPT !.soft_clear = Append(@, rect)]

\* lines 233-266: the body of the loop for one blit
DrawOne(blit, a) ==
  LET offset == blit.clipping[1]
      region == blit.clipping[2]
      blit_rect == Move(blit.rect, offset[1], offset[2])
      r == BlitRect(blit.surface, blit_rect, region)
      painted == Paint(a.scr, r, blit.surface.img)
      shown(why) == Append(a.drawn, [blit |-> blit, rect |-> r, why |-> why])
  IN IF ~Contains(DisplayRect, blit_rect) /\ ~Collide(DisplayRect, blit_rect)
     THEN a
     ELSE IF blit.static
     THEN IF Hits(blit_rect, a.clear_this)
          THEN [a EXCEPT !.scr = painted, !.drawn = shown("clear_this"),
                         !.clear_this = Append(@, blit_rect),
                         !.new_soft = Append(@, blit_rect)]
          ELSE IF Hits(blit_rect, a.soft_clear)
               THEN KeepSoft([a EXCEPT !.scr = painted, !.drawn = shown("soft_clear")],
                             blit.rect)
               ELSE a
     ELSE IF Contains(DisplayRect, blit_rect)
          THEN [a EXCEPT !.scr = painted, !.drawn = shown("dynamic"),
                         !.clear_next = Schedule(@, r)]
          ELSE IF BlitAttr(blit, "surf") = "AttributeError"
               THEN [a EXCEPT !.err = "AttributeError"]
               ELSE [a EXCEPT !.scr = painted, !.drawn = shown("dynamic"),
                              !.clear_next = Schedule(@, r)]

RECURSIVE DrawLoop(_, _, _)
DrawLoop(sorted, k, a) ==
  IF k > Len(sorted) \/ a.err # "none" THEN a
  ELSE DrawLoop(sorted, k + 1, DrawOne(sorted[k], a))

\* the whole pass up to the display update, for one order of the dict's values
DrawPass(o) ==
  LET back == Restore(surface, clear_this_frame \o soft_clear, background, 1, <<>>)
      sorted == SortByLayer(blits \o Values(static_blits, o))
      start == [scr |-> back.scr, clear_this |-> clear_this_frame,
                clear_next |-> clear_next_frame, soft_clear |-> soft_clear,
                new_soft |-> <<>>, drawn |-> <<>>, err |-> "none"]
  IN [end |-> DrawLoop(sorted, 1, start), restored |-> back.restored, sorted |-> sorted]

(***************************************************************************)
(* Arguments the operations are called with.                               *)
(***************************************************************************)
RootCamera == Camera(NoValue, NoValue, TRUE)
\* the cameras a scene works with: the root alone, or the root and a child
\* that maps a 1x1 virtual space onto the whole display (scale 2)
Hierarchies ==
  {<<RootCamera>>,
   <<RootCamera, make_child(RootCamera, 1, <<1, 1>>, NoValue)>>}
NoClipping == <<<<0, 0>>, NoValue>>
\* <<image, position, layer, clipping>>
BlitArgs ==
  {<<"A", <<0, 0>>, 2, NoClipping>>,
   <<"A", <<0, 0>>, 1, <<<<0, 0>>, <<Rect(0, 0, 1, 1)>>>>>>,
   <<"B", <<1, 0>>, 1, NoClipping>>,
   <<"B", <<-1, 0>>, 1, NoClipping>>,
   <<"B", <<0, 0>>, 2, <<<<1, 0>>, NoValue>>>>}
StaticArgs ==
  {<<"B", <<0, 0>>, 2, NoClipping>>,
   <<"A", <<1, 1>>, 1, NoClipping>>}
Flags == {0}

Root == cams[1]

EmptyDict == [x \in {} |-> NoValue]

(***************************************************************************)
(* The state after the director has built the root camera.                 *)
(***************************************************************************)
Init ==
  /\ cams \in Hierarchies
  /\ background = FreshBackground(cams[1].rsize)
  /\ surface = [p \in Pixels(DisplayRect) |->
                  IF p \in Pixels(BackgroundRect(background)) THEN "white" ELSE "black"]
  /\ blits = <<>>
  /\ clear_this_frame = <<>>
  /\ clear_next_frame = <<>>
  /\ soft_clear = <<>>
  /\ static_blits = EmptyDict
  /\ saved_blits = EmptyDict
  /\ backgrounds = EmptyDict
  /\ running = NoScene
  /\ last = [op |-> "init", err |-> "none"]

\* nothing in the module catches what an operation raises: the exception ends the run
Alive == last.err = "none"

PutNothing(d, k, v) == d

Put(d, k, v) == [x \in DOMAIN d \cup {k} |-> IF x = k THEN v ELSE d[x]]

PopKeepsKey(d, k) == d

Pop(d, k) == [x \in DOMAIN d \ {k} |-> d[x]]

\* Camera._blit
Blit(c, img, pos, layer, flags, clipping) ==
  LET d == ClipToCamera(c, img, pos)
  IN /\ Alive
     /\ Len(blits) < MaxBlits
     /\ blits' = IF d.kind = "outside" THEN blits
                 ELSE Append(blits, NewBlit(d.surface, d.rect, layer, flags, FALSE, clipping))
     /\ last' = [op |-> "blit", err |-> "none", cam |-> c, img |-> img, pos |-> pos]
     /\ UNCHANGED <<cams, surface, background, clear_this_frame, clear_next_frame,
                    soft_clear, static_blits, saved_blits, backgrounds, running>>

\* Camera._static_blit
StaticBlit(c, sprite, img, pos, layer, flags, clipping) ==
  LET redraw == sprite \in DOMAIN static_blits
      r2 == IF redraw THEN BlitItem(static_blits[sprite], 1) ELSE "unset"
      d == ClipToCamera(c, img, pos)
      done == [op |-> "static_blit", err |-> "none", cam |-> c, sprite |-> sprite,
               img |-> img, pos |-> pos, redraw |-> redraw,
               old |-> IF redraw THEN <<static_blits[sprite].rect>> ELSE <<>>]
  IN /\ Alive
     /\ Len(clear_this_frame) < MaxClear
     /\ IF r2 = "TypeError"
        THEN /\ last' = [done EXCEPT !.err = "TypeError"]
             /\ UNCHANGED <<static_blits, clear_this_frame>>
        ELSE IF d.kind = "outside"
        THEN /\ last' = done
             /\ UNCHANGED <<static_blits, clear_this_frame>>
        ELSE /\ static_blits' = Put(static_blits, sprite,
                                    NewBlit(d.surface, d.rect, layer, flags, TRUE, clipping))
             /\ clear_this_frame' = Append(clear_this_frame,
                                           IF redraw THEN Union(r2, d.rect) ELSE d.rect)
             /\ last' = done
     /\ UNCHANGED <<cams, surface, background, blits, clear_next_frame,
                    soft_clear, saved_blits, backgrounds, running>>

\* Camera._remove_static_blit: a child hands the call to the root
RemoveStaticBlit(c, sprite) ==
  /\ Alive
  /\ sprite \in DOMAIN static_blits => Len(clear_this_frame) < MaxClear
  /\ IF sprite \in DOMAIN static_blits
     THEN /\ static_blits' = Pop(static_blits, sprite)
          /\ clear_this_frame' = Append(clear_this_frame, static_blits[sprite].rect)
     ELSE UNCHANGED <<static_blits, clear_this_frame>>
  /\ last' = [op |-> "remove_static_blit", err |-> "none", cam |-> c, sprite |-> sprite]
  /\ UNCHANGED <<cams, surface, background, blits, clear_next_frame,
                 soft_clear, saved_blits, backgrounds, running>>

SizeMatchesReal(surf, cam) == surf.size = cam.rsize

\* line 116: the image must have the camera's virtual size
SizeMatches(surf, cam) == surf.size = cam.vsize

\* Camera.set_background, called while `scene` is the executing scene
SetBackground(c, img, scene) ==
  LET surf == [img |-> img, size |-> ImageSize(img)]
      done == [op |-> "set_background", err |-> "none", cam |-> c, img |-> img,
               scene |-> scene]
  IN /\ Alive
     /\ (SizeMatches(surf, cams[c]) /\ ~cams[c].root /\ scene = running)
           => Len(clear_this_frame) < MaxClear
     /\ IF ~SizeMatches(surf, cams[c])
        THEN /\ last' = [done EXCEPT !.err = "ValueError"]
             /\ UNCHANGED <<background, clear_this_frame, backgrounds>>
        ELSE IF cams[c].root
        THEN /\ last' = done
             /\ UNCHANGED <<background, clear_this_frame, backgrounds>>
        ELSE IF scene = running
        THEN /\ background' = surf
             /\ clear_this_frame' = Append(clear_this_frame, BackgroundRect(surf))
             /\ last' = done
             /\ UNCHANGED backgrounds
        ELSE /\ backgrounds' = Put(backgrounds, scene, surf)
             /\ last' = done
             /\ UNCHANGED <<background, clear_this_frame>>
     /\ UNCHANGED <<cams, surface, blits, clear_next_frame, soft_clear,
                    static_blits, saved_blits, running>>

\* Camera._draw on the root; `o` is the order dict.values() lists the static blits in
\* (`passes` counts the draw passes made in a row, up to MaxPasses)
Draw(o) ==
  \E pass \in {DrawPass(o)} : \E end \in {pass.end} :
     /\ Alive
     /\ surface' = end.scr
     /\ soft_clear' = end.new_soft
     /\ last' = [op |-> "draw", err |-> end.err, restored |-> pass.restored,
                 merged |-> blits \o Values(static_blits, o),
                 sorted |-> pass.sorted, drawn |-> end.drawn,
                 presented |-> IF end.err = "none"
                               THEN end.clear_next \o end.clear_this ELSE <<>>,
                 passes |-> IF last.op = "draw" THEN Min(last.passes + 1, MaxPasses)
                            ELSE 1]
     /\ IF end.err = "none"
        THEN /\ clear_this_frame' = end.clear_next
             /\ clear_next_frame' = <<>>
             /\ blits' = <<>>
        ELSE /\ clear_this_frame' = end.clear_this
             /\ clear_next_frame' = end.clear_next
             /\ UNCHANGED blits
     /\ UNCHANGED <<cams, background, static_blits, saved_blits, backgrounds, running>>

\* Camera._draw on a camera that is not the root returns at once
DrawChild(c) ==
  /\ Alive
  /\ ~cams[c].root
  /\ last' = [op |-> "draw_child", err |-> "none", cam |-> c]
  /\ UNCHANGED <<cams, surface, background, blits, clear_this_frame, clear_next_frame,
                 soft_clear, static_blits, saved_blits, backgrounds, running>>

AfterExitKept(d) == d

\* line 284: the live dict is replaced by a new empty one
AfterExit(d) == EmptyDict

\* Camera._exit_scene, called by the director for the scene it is leaving
ExitScene(scene) ==
  /\ Alive
  /\ running = scene
  /\ saved_blits' = Put(saved_blits, scene, static_blits)
  /\ static_blits' = AfterExit(static_blits)
  /\ backgrounds' = Put(backgrounds, scene, background)
  /\ background' = FreshBackground(Root.rsize)
  /\ surface' = Paint(surface, BackgroundRect(background'), "white")
  /\ running' = NoScene
  /\ last' = [op |-> "exit_scene", err |-> "none", scene |-> scene,
              static_blits |-> static_blits, background |-> background]
  /\ UNCHANGED <<cams, blits, clear_this_frame, clear_next_frame, soft_clear>>

PopOrDefaultKeeps(d, k, default) == default

\* line 291: dict.pop(key, default)
PopOrDefault(d, k, default) == IF k \in DOMAIN d THEN d[k] ELSE default

\* Camera._enter_scene, called by the director for the scene it starts or resumes
EnterScene(scene) ==
  /\ Alive
  /\ running = NoScene
  /\ scene \in DOMAIN backgrounds => Len(clear_this_frame) < MaxClear
  /\ static_blits' = PopOrDefault(saved_blits, scene, static_blits)
  /\ saved_blits' = Pop(saved_blits, scene)
  /\ IF scene \in DOMAIN backgrounds
     THEN /\ background' = backgrounds[scene]
          /\ backgrounds' = Pop(backgrounds, scene)
          /\ clear_this_frame' = Append(clear_this_frame, BackgroundRect(background'))
     ELSE UNCHANGED <<background, backgrounds, clear_this_frame>>
  /\ running' = scene
  /\ last' = [op |-> "enter_scene", err |-> "none", scene |-> scene,
              resumed |-> last.op = "exit_scene" /\ last.scene = scene,
              deferred |-> /\ last.op = "set_background"
                           /\ last.err = "none"
                           /\ last.scene = scene
                           /\ scene \in DOMAIN backgrounds]
  /\ UNCHANGED <<cams, surface, blits, clear_next_frame, soft_clear>>

\* Camera.redraw: only the root has a _clear_this_frame attribute
Redraw(c) ==
  /\ Alive
  /\ Len(clear_this_frame) < MaxClear
  /\ IF cams[c].root
     THEN /\ clear_this_frame' = Append(clear_this_frame, RectAt(<<0, 0>>, cams[c].vsize))
          /\ last' = [op |-> "redraw", err |-> "none", cam |-> c]
     ELSE /\ last' = [op |-> "redraw", err |-> "AttributeError", cam |-> c]
          /\ UNCHANGED clear_this_frame
  /\ UNCHANGED <<cams, surface, background, blits, clear_next_frame, soft_clear,
                 static_blits, saved_blits, backgrounds, running>>

(***************************************************************************)
(* The frame loop of one scene: blits, static blits and draw passes.       *)
(***************************************************************************)
FrameNext ==
  \/ \E c \in 1..Len(cams), a \in BlitArgs, flags \in Flags :
        Blit(c, a[1], a[2], a[3], flags, a[4])
  \/ \E c \in 1..Len(cams), sprite \in Sprites, a \in StaticArgs, flags \in Flags :
        StaticBlit(c, sprite, a[1], a[2], a[3], flags, a[4])
  \/ \E c \in 1..Len(cams), sprite \in Sprites : RemoveStaticBlit(c, sprite)
  \/ \E o \in Orderings(DOMAIN static_blits) : Draw(o)
  \/ \E c \in 1..Len(cams) : DrawChild(c)
  \/ \E c \in 1..Len(cams) : Redraw(c)

FrameSpec == Init /\ [][FrameNext]_vars

(***************************************************************************)
(* Scene changes: the director leaves and enters scenes, scenes set        *)
(* backgrounds and keep static blits.                                      *)
(***************************************************************************)
SceneNext ==
  \/ \E c \in 1..Len(cams), a \in StaticArgs, flags \in Flags :
        StaticBlit(c, "s1", a[1], a[2], a[3], flags, a[4])
  \/ \E c \in 1..Len(cams), img \in BackgroundImages, scene \in Scenes :
        SetBackground(c, img, scene)
  \/ \E o \in Orderings(DOMAIN static_blits) : Draw(o)
  \/ \E scene \in Scenes : ExitScene(scene)
  \/ \E scene \in Scenes : EnterScene(scene)

SceneSpec == Init /\ [][SceneNext]_vars

(***************************************************************************)
(* A scene that sets its background through a camera and blits sprites.    *)
(***************************************************************************)
BackdropNext ==
  \/ \E scene \in Scenes : EnterScene(scene)
  \/ \E c \in 1..Len(cams), img \in BackgroundImages, scene \in Scenes :
        SetBackground(c, img, scene)
  \/ \E c \in 1..Len(cams), a \in BlitArgs, flags \in Flags :
        Blit(c, a[1], a[2], a[3], flags, a[4])
  \/ \E o \in Orderings(DOMAIN static_blits) : Draw(o)

BackdropSpec == Init /\ [][BackdropNext]_vars

(***************************************************************************)
(* Building camera hierarchies: the director's root camera with or without *)
(* a virtual size, make_child on any camera built so far, and blits        *)
(* through any of them.                                                    *)
(***************************************************************************)
RootCameras == {Camera(v, NoValue, TRUE) : v \in {NoValue, <<1, 1>>}}
VirtualSizes == {NoValue, <<1, 1>>, <<4, 2>>}
RealSizes == {NoValue, <<2, 2>>}
ViewportBlitArgs ==
  {<<"A", <<1, 1>>, 1, NoClipping>>,
   <<"B", <<0, 0>>, 2, NoClipping>>}

ViewportInit ==
  /\ cams \in {<<r>> : r \in RootCameras}
  /\ background = FreshBackground(cams[1].rsize)
  /\ surface = [p \in Pixels(DisplayRect) |->
                  IF p \in Pixels(BackgroundRect(background)) THEN "white" ELSE "black"]
  /\ blits = <<>>
  /\ clear_this_frame = <<>>
  /\ clear_next_frame = <<>>
  /\ soft_clear = <<>>
  /\ static_blits = EmptyDict
  /\ saved_blits = EmptyDict
  /\ backgrounds = EmptyDict
  /\ running = NoScene
  /\ last = [op |-> "init", err |-> "none"]

\* Camera.make_child on the camera at place p; the child is kept by the caller
MakeChild(p, virtual_size, real_size) ==
  /\ Alive
  /\ Len(cams) < MaxCams
  /\ cams' = Append(cams, make_child(cams[p], p, virtual_size, real_size))
  /\ last' = [op |-> "make_child", err |-> "none", cam |-> p]
  /\ UNCHANGED <<surface, background, blits, clear_this_frame, clear_next_frame,
                 soft_clear, static_blits, saved_blits, backgrounds, running>>

ViewportNext ==
  \/ \E p \in 1..Len(cams), v \in VirtualSizes, r \in RealSizes : MakeChild(p, v, r)
  \/ \E c \in 1..Len(cams), a \in ViewportBlitArgs, flags \in Flags :
        Blit(c, a[1], a[2], a[3], flags, a[4])

ViewportSpec == ViewportInit /\ [][ViewportNext]_vars

(***************************************************************************)
(* Sprites that come and go: static blits, their removal, draw passes, and *)
(* the rest of the program giving up its last reference to a sprite.       *)
(***************************************************************************)
\* line 72: _static_blits is a plain dict, so the key it holds keeps the sprite
\* alive and the entry stays (only _saved_blits and _backgrounds are weak)
DropSprite(sprite) ==
  /\ Alive
  /\ sprite \in DOMAIN static_blits
  /\ last' = [op |-> "drop_sprite", err |-> "none", sprite |-> sprite]
  /\ UNCHANGED <<cams, surface, background, blits, clear_this_frame, clear_next_frame,
                 soft_clear, static_blits, saved_blits, backgrounds, running>>

SpriteNext ==
  \/ \E c \in 1..Len(cams), sprite \in Sprites, a \in StaticArgs, flags \in Flags :
        StaticBlit(c, sprite, a[1], a[2], a[3], flags, a[4])
  \/ \E c \in 1..Len(cams), sprite \in Sprites : RemoveStaticBlit(c, sprite)
  \/ \E sprite \in Sprites : DropSprite(sprite)
  \/ \E o \in Orderings(DOMAIN static_blits) : Draw(o)

SpriteSpec == Init /\ [][SpriteNext]_vars

(***************************************************************************)
(* Static records settling on the root camera: three sprites whose         *)
(* rectangles overlap in a chain, one of them drawn at an offset, a        *)
(* dynamic blit that dirties a corner, and draw passes.                    *)
(***************************************************************************)
StaticSprites == {"s1", "s2", "s3"}
SettleStaticArgs ==
  {<<"D", <<1, 0>>, 1, NoClipping>>,
   <<"B", <<0, 0>>, 2, NoClipping>>,
   <<"A", <<1, 1>>, 2, NoClipping>>,
   <<"A", <<0, 0>>, 1, <<<<0, 1>>, NoValue>>>>}
SettleBlitArgs == {<<"A", <<0, 0>>, 2, NoClipping>>}

SettleInit == Init /\ Len(cams) = 1

SettleNext ==
  \/ \E sprite \in StaticSprites, a \in SettleStaticArgs, flags \in Flags :
        StaticBlit(1, sprite, a[1], a[2], a[3], flags, a[4])
  \/ \E sprite \in StaticSprites : RemoveStaticBlit(1, sprite)
  \/ \E a \in SettleBlitArgs, flags \in Flags : Blit(1, a[1], a[2], a[3], flags, a[4])
  \/ \E o \in Orderings(DOMAIN static_blits) : Draw(o)

SettleSpec == SettleInit /\ [][SettleNext]_vars

(***************************************************************************)
(* Two scenes taking turns on the root camera, each adding and removing    *)
(* its own static blits.                                                   *)
(***************************************************************************)
IsolationNext ==
  \/ \E sprite \in Sprites, a \in StaticArgs, flags \in Flags :
        StaticBlit(1, sprite, a[1], a[2], a[3], flags, a[4])
  \/ \E sprite \in Sprites : RemoveStaticBlit(1, sprite)
  \/ \E o \in Orderings(DOMAIN static_blits) : Draw(o)
  \/ \E scene \in Scenes : ExitScene(scene)
  \/ \E scene \in Scenes : EnterScene(scene)

IsolationSpec == SettleInit /\ [][IsolationNext]_vars

(***************************************************************************)
(* Vocabulary of the properties.                                           *)
(***************************************************************************)
InSeq(x, seq) == \E k \in 1..Len(seq) : seq[k] = x

Covers(big, small) == Pixels(small) \subseteq Pixels(big)

\* the rectangle a blit call asks for, and its relation to the camera's bounds
Asked(l) == ScaledRect(l.cam, l.img, l.pos)

Bounds(l) == cams[l.cam].rect

FullyOutside(l) == Pixels(Asked(l)) \cap Pixels(Bounds(l)) = {}

PartlyInside(l) ==
  /\ Pixels(Asked(l)) \cap Pixels(Bounds(l)) # {}
  /\ ~(Pixels(Asked(l)) \subseteq Pixels(Bounds(l)))

\* where a record lands on the display: its rectangle moved by the clipping offset
OnScreen(b) == Move(b.rect, b.clipping[1][1], b.clipping[1][2])

Dynamic(seq) == SelectSeq(seq, LAMBDA b : ~b.static)

PassDone == last.op = "draw" /\ last.err = "none"

(***************************************************************************)
(* C1.  A second staticBlit for a sprite that already has an entry, at a   *)
(* new position that still meets the camera's bounds, completes without    *)
(* error, leaves exactly one entry for the sprite whose rectangle is the   *)
(* new destination, and puts the union of the old and the new rectangle    *)
(* into the this-frame list.                                               *)
(***************************************************************************)
C1_SecondStaticBlit ==
  (/\ last.op = "static_blit"
   /\ last.redraw
   /\ ~FullyOutside(last)
   /\ last.old[1] # Clip(Asked(last), Bounds(last)))
  => /\ last.err = "none"
     /\ last.sprite \in DOMAIN static_blits
     /\ static_blits[last.sprite].rect = Clip(Asked(last), Bounds(last))
     /\ InSeq(Union(last.old[1], Clip(Asked(last), Bounds(last))), clear_this_frame)

(***************************************************************************)
(* C2.  As claimed: from empty dirty lists, after one dynamic blit and one *)
(* finished draw pass, clearNextFrame holds the blit's rectangle and       *)
(* pendingBlits is empty.                                                  *)
(***************************************************************************)
OneBlitPass ==
  /\ PassDone
  /\ last.restored = <<>>
  /\ Len(Dynamic(last.merged)) = 1
  /\ Contains(DisplayRect, OnScreen(Dynamic(last.merged)[1]))

C2_ClearNextHoldsRect ==
  OneBlitPass => /\ InSeq(OnScreen(Dynamic(last.merged)[1]), clear_next_frame)
                 /\ blits = <<>>

(***************************************************************************)
(* C2, amended.  After that pass it is clearThisFrame that holds the       *)
(* rectangle the blit was drawn to (the blit's own on-screen rectangle     *)
(* when it has no clipping region); clearNextFrame and pendingBlits are    *)
(* empty.                                                                  *)
(***************************************************************************)
C2_ClearThisHoldsRect ==
  OneBlitPass =>
    LET b == Dynamic(last.merged)[1]
    IN /\ InSeq(BlitRect(b.surface, OnScreen(b), b.clipping[2]), clear_this_frame)
       /\ b.clipping[2] = NoValue => InSeq(OnScreen(b), clear_this_frame)
       /\ clear_next_frame = <<>>
       /\ blits = <<>>

C2_Witness ==
  /\ OneBlitPass
  /\ Dynamic(last.merged)[1].clipping = NoClipping
  /\ Dynamic(last.merged)[1].surface = WholeSurface("A", <<1, 1>>)
  /\ clear_this_frame = <<Rect(0, 0, 1, 1)>>

(***************************************************************************)
(* C3.  When a pass that drew a dynamic blit is followed by the next pass  *)
(* with nothing submitted in between, the restore phase of the second pass *)
(* copies the background over the whole rectangle the blit was drawn to,   *)
(* and both clearThisFrame and clearNextFrame are empty afterwards.        *)
(***************************************************************************)
C3_NextPassRestores ==
  [][(PassDone /\ last'.op = "draw" /\ last'.err = "none")
       => /\ \A k \in 1..Len(last.drawn) :
               ~last.drawn[k].blit.static
                 => \E j \in 1..Len(last'.restored) :
                      Covers(last'.restored[j], last.drawn[k].rect)
          /\ clear_this_frame' = <<>>
          /\ clear_next_frame' = <<>>]_vars

(***************************************************************************)
(* C4.  A draw pass visits the pending blits followed by the static blits  *)
(* in non-decreasing layer order, and records of one layer keep the order  *)
(* they had in that merged sequence.                                       *)
(***************************************************************************)
OfLayer(seq, l) == SelectSeq(seq, LAMBDA b : b.layer = l)

C4_StableLayerOrder ==
  last.op = "draw" =>
    /\ Len(last.sorted) = Len(last.merged)
    /\ \A i, j \in 1..Len(last.sorted) : i < j => last.sorted[i].layer <= last.sorted[j].layer
    /\ \A l \in Layers : OfLayer(last.sorted, l) = OfLayer(last.merged, l)
    /\ \A i, j \in 1..Len(last.drawn) :
         i < j => last.drawn[i].blit.layer <= last.drawn[j].blit.layer

C4_Witness ==
  /\ PassDone
  /\ Len(last.merged) >= 3
  /\ \E i, j \in 1..Len(last.merged) : i < j /\ last.merged[i].layer > last.merged[j].layer
  /\ \E i, j \in 1..Len(last.merged) :
       i < j /\ last.merged[i].layer = last.merged[j].layer /\ last.merged[i] # last.merged[j]
  /\ Len(last.drawn) >= 2

(***************************************************************************)
(* C5.  After a draw pass, every display pixel that two or more of the     *)
(* frame's records (pending blits and static blits) cover shows the        *)
(* content of a covering record of the highest layer.                      *)
(***************************************************************************)
Shown(b) == BlitRect(b.surface, OnScreen(b), b.clipping[2])

Covering(p) == {k \in 1..Len(last.merged) : p \in Pixels(Shown(last.merged[k]))}

C5_HighestLayerOnTop ==
  PassDone =>
    \A p \in DOMAIN surface :
      Cardinality(Covering(p)) >= 2 =>
        \E k \in Covering(p) :
          /\ \A j \in Covering(p) : last.merged[j].layer <= last.merged[k].layer
          /\ surface[p] = last.merged[k].surface.img

(***************************************************************************)
(* C6.  A blit whose scaled destination lies fully outside the camera's    *)
(* bounds appends nothing to pendingBlits and changes neither the static   *)
(* blits, the three dirty lists nor the background.                        *)
(***************************************************************************)
C6_OutsideBlitDropped ==
  [][(last'.op = "blit" /\ FullyOutside(last'))
       => UNCHANGED <<blits, static_blits, clear_this_frame, clear_next_frame,
                      soft_clear, background>>]_vars

C6_Witness ==
  /\ last.op = "blit"
  /\ FullyOutside(last)
  /\ blits = <<>>
  /\ static_blits # EmptyDict
  /\ clear_this_frame # <<>>

(***************************************************************************)
(* C7.  A blit whose scaled destination partly overlaps the camera's       *)
(* bounds appends exactly one record; its rectangle is the intersection of *)
(* the destination with the bounds and its surface is the part of the      *)
(* scaled image at that intersection, moved by minus the destination's     *)
(* top-left corner.                                                        *)
(***************************************************************************)
C7_PartialBlitClipped ==
  [][(last'.op = "blit" /\ PartlyInside(last'))
       => /\ Len(blits') = Len(blits) + 1
          /\ SubSeq(blits', 1, Len(blits)) = blits
          /\ LET b == blits'[Len(blits')]
                 r == Asked(last')
             IN /\ Pixels(b.rect) = Pixels(r) \cap Pixels(Bounds(last'))
                /\ b.surface.img = last'.img
                /\ b.surface.area = Move(b.rect, -r.x, -r.y)
                /\ ~b.static]_vars

C7_Witness ==
  /\ last.op = "blit"
  /\ PartlyInside(last)
  /\ Asked(last).x < 0
  /\ Len(blits) = 1
  /\ blits[1].surface.area.x > 0

(***************************************************************************)
(* C8.  In a draw pass every dynamic record whose on-screen rectangle      *)
(* meets the display, contained or only overlapping, is drawn; the pass    *)
(* completes and the rectangle drawn is scheduled for the next frame.      *)
(***************************************************************************)
C8_DynamicAlwaysDrawn ==
  last.op = "draw" =>
    \A k \in 1..Len(last.merged) :
      (~last.merged[k].static /\ Collide(DisplayRect, OnScreen(last.merged[k])))
        => /\ last.err = "none"
           /\ \E d \in 1..Len(last.drawn) :
                /\ last.drawn[d].blit = last.merged[k]
                /\ InSeq(last.drawn[d].rect, clear_this_frame)

(***************************************************************************)
(* C9.  onSceneExit(S) directly followed by onSceneEnter(S) leaves the     *)
(* static blits and the background as they were just before the exit.      *)
(***************************************************************************)
C9_ExitEnterRoundTrip ==
  [][(last.op = "exit_scene" /\ last'.op = "enter_scene" /\ last'.scene = last.scene)
       => /\ static_blits' = last.static_blits
          /\ background' = last.background]_vars

C9_Witness ==
  /\ last.op = "enter_scene"
  /\ last.resumed
  /\ static_blits # EmptyDict
  /\ background.img # "white"

(***************************************************************************)
(* C10.  setBackground with an image whose size is not the camera's        *)
(* virtual size raises, and leaves the live background, the stored         *)
(* backgrounds and the dirty lists as they were.                           *)
(***************************************************************************)
C10_SizeMismatchRejected ==
  [][(last'.op = "set_background" /\ ImageSize(last'.img) # cams[last'.cam].vsize)
       => /\ last'.err = "ValueError"
          /\ UNCHANGED <<background, backgrounds, clear_this_frame,
                         clear_next_frame, soft_clear>>]_vars

C10_Witness ==
  /\ last.op = "set_background"
  /\ last.err = "ValueError"
  /\ ~cams[last.cam].root
  /\ background.img # "white"
  /\ backgrounds # EmptyDict

(***************************************************************************)
(* C11.  removeStaticBlit, on the root or on a child: for a sprite without *)
(* an entry it raises nothing and leaves the static blits and              *)
(* clearThisFrame as they were; for a sprite with an entry it removes that *)
(* entry and no other and appends the entry's rectangle to clearThisFrame. *)
(***************************************************************************)
C11_RemoveStaticBlit ==
  [][last'.op = "remove_static_blit"
       => /\ last'.err = "none"
          /\ IF last'.sprite \in DOMAIN static_blits
             THEN /\ DOMAIN static_blits' = DOMAIN static_blits \ {last'.sprite}
                  /\ \A s \in DOMAIN static_blits' : static_blits'[s] = static_blits[s]
                  /\ clear_this_frame' =
                       Append(clear_this_frame, static_blits[last'.sprite].rect)
             ELSE UNCHANGED <<static_blits, clear_this_frame>>]_vars

C11_Witness ==
  /\ last.op = "remove_static_blit"
  /\ ~cams[last.cam].root
  /\ last.sprite \notin DOMAIN static_blits
  /\ static_blits # EmptyDict
  /\ clear_this_frame # <<>>

(***************************************************************************)
(* C12.  After redraw() on any camera, root or child, clearThisFrame holds *)
(* a rectangle at the origin that covers the camera's whole virtual        *)
(* display area.                                                           *)
(***************************************************************************)
C12_RedrawSchedulesAll ==
  last.op = "redraw" =>
    \E k \in 1..Len(clear_this_frame) :
      /\ clear_this_frame[k].x = 0
      /\ clear_this_frame[k].y = 0
      /\ Covers(clear_this_frame[k], RectAt(<<0, 0>>, cams[last.cam].vsize))

(***************************************************************************)
(* C13.  setBackground on a child camera with an image of the right size.  *)
(* While the executing scene is not the running one the call leaves the    *)
(* live background and the dirty lists as they were and stores the image   *)
(* for the scene; the stored image stays until the scene is entered, and   *)
(* onSceneEnter of the scene makes it the live background and appends the  *)
(* background's rectangle to clearThisFrame.  While the executing scene is *)
(* the running one the call replaces the live background and appends the   *)
(* rectangle itself.                                                       *)
(***************************************************************************)
Accepted(l) == l.op = "set_background" /\ l.err = "none" /\ ~cams[l.cam].root

C13_BackgroundActivation ==
  [][/\ (Accepted(last') /\ last'.scene # running)
          => /\ UNCHANGED <<background, clear_this_frame, clear_next_frame, soft_clear>>
             /\ last'.scene \in DOMAIN backgrounds'
             /\ backgrounds'[last'.scene].img = last'.img
     /\ \A s \in DOMAIN backgrounds :
          (/\ s # running
           /\ ~(last'.op = "enter_scene" /\ last'.scene = s)
           /\ ~(last'.op = "set_background" /\ last'.scene = s))
          => /\ s \in DOMAIN backgrounds'
             /\ backgrounds'[s] = backgrounds[s]
     /\ (last'.op = "enter_scene" /\ last'.scene \in DOMAIN backgrounds)
          => /\ background' = backgrounds[last'.scene]
             /\ clear_this_frame' =
                  Append(clear_this_frame, BackgroundRect(backgrounds[last'.scene]))
     /\ (Accepted(last') /\ last'.scene = running)
          => /\ background'.img = last'.img
             /\ background'.size = ImageSize(last'.img)
             /\ clear_this_frame' = Append(clear_this_frame, BackgroundRect(background'))
             /\ UNCHANGED backgrounds]_vars

\* a scene entered right after its deferred setBackground, another scene having run before
C13_Witness ==
  /\ last.op = "enter_scene"
  /\ last.deferred
  /\ background.img = "A"
  /\ clear_this_frame = <<BackgroundRect(background)>>
  /\ backgrounds # EmptyDict

(***************************************************************************)
(* C14.  As claimed: every camera's scale is its own real size divided by  *)
(* its virtual size, and a blit through a camera scales position and image *)
(* by the product of that ratio and the ratios of all its ancestors.       *)
(***************************************************************************)
\* ratios are compared as fractions <<numerator, denominator>> per axis
OwnRatio(c) == <<<<cams[c].rsize[1], cams[c].vsize[1]>>,
                 <<cams[c].rsize[2], cams[c].vsize[2]>>>>

SameScale(s, t) == \A i \in 1..2 : s[i][1] * t[i][2] = t[i][1] * s[i][2]

RECURSIVE ChainRatio(_)
ChainRatio(c) ==
  IF cams[c].parent = 0 THEN OwnRatio(c)
  ELSE LET own == OwnRatio(c)
           up == ChainRatio(cams[c].parent)
       IN <<<<own[1][1] * up[1][1], own[1][2] * up[1][2]>>,
            <<own[2][1] * up[2][1], own[2][2] * up[2][2]>>>>

\* the rectangle a blit asks for when position and image are scaled by s
AskedAt(l, s) ==
  Rect(Trunc(l.pos[1] * s[1][1], s[1][2]), Trunc(l.pos[2] * s[2][1], s[2][2]),
       Ceil(ImageSize(l.img)[1] * s[1][1], s[1][2]),
       Ceil(ImageSize(l.img)[2] * s[2][1], s[2][2]))

BlitScaledByChain ==
  (last.op = "blit" /\ Collide(Bounds(last), AskedAt(last, ChainRatio(last.cam))))
    => /\ blits # <<>>
       /\ Pixels(blits[Len(blits)].rect) =
            Pixels(AskedAt(last, ChainRatio(last.cam))) \cap Pixels(Bounds(last))

C14_ScaleIsOwnRatio ==
  /\ \A c \in 1..Len(cams) : SameScale(cams[c].scale, OwnRatio(c))
  /\ BlitScaledByChain

(***************************************************************************)
(* C14, amended.  Every camera's scale is the product of its own real size *)
(* over virtual size ratio and the ratios of all its ancestors, which is   *)
(* the camera's own ratio for the root and for a camera whose ancestors    *)
(* all have ratio one; a blit through the camera scales position and image *)
(* by that product.                                                        *)
(***************************************************************************)
C14_ScaleIsChainProduct ==
  /\ \A c \in 1..Len(cams) :
       /\ SameScale(cams[c].scale, ChainRatio(c))
       /\ (cams[c].parent = 0 \/ SameScale(ChainRatio(cams[c].parent), UnitScale))
            => SameScale(cams[c].scale, OwnRatio(c))
  /\ BlitScaledByChain

\* a blit through a grandchild whose parent is scaled and whose own ratio is a fraction
C14_Witness ==
  /\ last.op = "blit"
  /\ cams[last.cam].parent > 1
  /\ ~SameScale(ChainRatio(cams[last.cam].parent), UnitScale)
  /\ OwnRatio(last.cam)[1][1] < OwnRatio(last.cam)[1][2]
  /\ ~SameScale(cams[last.cam].scale, OwnRatio(last.cam))
  /\ blits # <<>>
  /\ blits[Len(blits)].rect.x > 0

(***************************************************************************)
(* C15.  Once the rest of the program has given up a sprite that was       *)
(* passed to staticBlit, the next draw pass does not draw the sprite's     *)
(* entry and the entry is absent from the static blits after it, without   *)
(* removeStaticBlit having been called.                                    *)
(***************************************************************************)
C15_EntryDiesWithSprite ==
  [][(last.op = "drop_sprite" /\ last'.op = "draw")
       => /\ last.sprite \notin DOMAIN static_blits'
          /\ last.sprite \in DOMAIN static_blits
               => \A k \in 1..Len(last'.drawn) :
                    last'.drawn[k].blit # static_blits[last.sprite]]_vars

(***************************************************************************)
(* C16.  As claimed: in a draw pass a static record is drawn only if its   *)
(* on-screen rectangle collides with a rectangle of clearThisFrame, as     *)
(* extended by the static records drawn earlier in the pass because of     *)
(* clearThisFrame, or with a rectangle of the softClear list carried over  *)
(* from the previous pass; static records that are not drawn add nothing   *)
(* to a dirty list.                                                        *)
(***************************************************************************)
\* the static records drawn before the d-th drawn record, for one reason
DrawnBefore(l, d, why) == {j \in 1..(d - 1) : l.drawn[j].why = why}

MeetsSeq(r, rects) == \E k \in 1..Len(rects) : Collide(r, rects[k])

MeetsClearThis(l, d, r, clear_this) ==
  \/ MeetsSeq(r, clear_this)
  \/ \E j \in DrawnBefore(l, d, "clear_this") : Collide(r, OnScreen(l.drawn[j].blit))

\* every rectangle the pass leaves in a list comes from the lists before the
\* pass or from a record the pass drew
ListsFromDrawn(l, clear_this, clear_next, new_this, new_next, new_soft) ==
  /\ \A k \in 1..Len(new_soft) :
       \E d \in 1..Len(l.drawn) :
         l.drawn[d].why = "clear_this" /\ OnScreen(l.drawn[d].blit) = new_soft[k]
  /\ \A k \in 1..Len(l.presented) :
       \/ InSeq(l.presented[k], clear_this)
       \/ InSeq(l.presented[k], clear_next)
       \/ \E d \in 1..Len(l.drawn) :
            \/ l.drawn[d].why = "clear_this" /\ OnScreen(l.drawn[d].blit) = l.presented[k]
            \/ l.drawn[d].why = "dynamic" /\ l.drawn[d].rect = l.presented[k]
  /\ \A k \in 1..Len(new_this) : InSeq(new_this[k], l.presented)
  /\ new_next = <<>>

C16_StaticNeedsCarriedDirt ==
  [][(last'.op = "draw" /\ last'.err = "none")
       => /\ \A d \in 1..Len(last'.drawn) :
               last'.drawn[d].blit.static
                 => \/ MeetsClearThis(last', d, OnScreen(last'.drawn[d].blit),
                                      clear_this_frame)
                    \/ MeetsSeq(OnScreen(last'.drawn[d].blit), soft_clear)
          /\ ListsFromDrawn(last', clear_this_frame, clear_next_frame,
                            clear_this_frame', clear_next_frame', soft_clear')]_vars

(***************************************************************************)
(* C16, amended.  A static record is drawn only if its on-screen rectangle *)
(* collides with a rectangle of clearThisFrame, as extended by the static  *)
(* records drawn earlier in the pass because of clearThisFrame, or with a  *)
(* rectangle of the carried-over softClear list, as extended by the        *)
(* (unshifted) rectangles of the static records drawn earlier in the pass  *)
(* because of softClear; static records that are not drawn add nothing to  *)
(* a dirty list.                                                           *)
(***************************************************************************)
C16_StaticNeedsDirt ==
  [][(last'.op = "draw" /\ last'.err = "none")
       => /\ \A d \in 1..Len(last'.drawn) :
               last'.drawn[d].blit.static
                 => \/ MeetsClearThis(last', d, OnScreen(last'.drawn[d].blit),
                                      clear_this_frame)
                    \/ MeetsSeq(OnScreen(last'.drawn[d].blit), soft_clear)
                    \/ \E j \in DrawnBefore(last', d, "soft_clear") :
                         Collide(OnScreen(last'.drawn[d].blit), last'.drawn[j].blit.rect)
          /\ ListsFromDrawn(last', clear_this_frame, clear_next_frame,
                            clear_this_frame', clear_next_frame', soft_clear')]_vars

\* a pass that drew three static records, one of which meets nothing the pass restored
C16_Witness ==
  /\ PassDone
  /\ Len(last.drawn) = 3
  /\ \E d \in 1..Len(last.drawn) :
       /\ last.drawn[d].why = "soft_clear"
       /\ \A k \in 1..Len(last.restored) :
            ~Collide(OnScreen(last.drawn[d].blit), last.restored[k])

(***************************************************************************)
(* C17.  As claimed: a static record drawn in a pass because it meets a    *)
(* rectangle of the carried-over softClear, and none of clearThisFrame,    *)
(* has its rectangle in softClear after the pass.                          *)
(***************************************************************************)
DrawnFor(why) == SelectSeq(last.drawn, LAMBDA e : e.why = why)

C17_SoftDrawnStaysSoft ==
  PassDone =>
    \A d \in 1..Len(last.drawn) :
      last.drawn[d].why = "soft_clear"
        => \/ InSeq(OnScreen(last.drawn[d].blit), soft_clear)
           \/ InSeq(last.drawn[d].blit.rect, soft_clear)

(***************************************************************************)
(* C17, amended.  After a pass softClear holds the on-screen rectangles of *)
(* the static records the pass drew because of clearThisFrame, in the      *)
(* order drawn, and nothing else: a record drawn because of the carried-   *)
(* over softClear is not put into the new softClear.                       *)
(***************************************************************************)
C17_SoftClearIsClearDrawn ==
  PassDone =>
    /\ Len(soft_clear) = Len(DrawnFor("clear_this"))
    /\ \A k \in 1..Len(soft_clear) :
         soft_clear[k] = OnScreen(DrawnFor("clear_this")[k].blit)

\* a pass that drew one static record for each reason
C17_Witness ==
  /\ PassDone
  /\ Len(DrawnFor("soft_clear")) >= 1
  /\ Len(DrawnFor("clear_this")) >= 1
  /\ ~InSeq(OnScreen(DrawnFor("soft_clear")[1].blit), soft_clear)

(***************************************************************************)
(* C18.  As claimed: every rectangle a pass restores from the background,  *)
(* softClear rectangles included, and every rectangle it draws, static     *)
(* records redrawn because of softClear included, is covered by the        *)
(* rectangles passed to the display update.                                *)
(***************************************************************************)
CoveredBy(r, rects) == \A p \in Pixels(r) : \E k \in 1..Len(rects) : p \in Pixels(rects[k])

C18_PresentCoversDirty ==
  PassDone =>
    /\ \A k \in 1..Len(last.restored) : CoveredBy(last.restored[k], last.presented)
    /\ \A d \in 1..Len(last.drawn) : CoveredBy(last.drawn[d].rect, last.presented)

(***************************************************************************)
(* C19.  Quiescence: when draw passes follow one another with no other     *)
(* operation in between, each pass completes; after the third of them      *)
(* clearThisFrame, clearNextFrame, softClear and the pending blits are     *)
(* empty, and every pass after the third restores nothing, draws nothing   *)
(* and presents an empty list.                                             *)
(***************************************************************************)
ListsEmpty ==
  /\ clear_this_frame = <<>>
  /\ clear_next_frame = <<>>
  /\ soft_clear = <<>>
  /\ blits = <<>>

SettledAfterThree ==
  /\ (PassDone /\ last.passes >= 3) => ListsEmpty
  /\ (PassDone /\ last.passes >= 4)
       => /\ last.restored = <<>>
          /\ last.drawn = <<>>
          /\ last.presented = <<>>

C19_Quiescence ==
  /\ last.op = "draw" => last.err = "none"
  /\ SettledAfterThree

(***************************************************************************)
(* C20.  Scene isolation of static blits, step by step.  Leaving a scene   *)
(* saves the live static blits under it and leaves the live map empty;     *)
(* what is saved under a scene is changed by no operation but the scene's  *)
(* own exit and entry, whatever another scene adds, removes or draws;      *)
(* entering a scene makes the map saved under it the live one and drops    *)
(* the saved copy, and a scene without a saved map that is entered right   *)
(* after another scene's exit starts with an empty map.  Hence after       *)
(* exit(A), enter(B), B's static blits, removals and passes, exit(B),      *)
(* enter(A) the live map is the one that was live before exit(A) and B's   *)
(* entries are the ones saved under B.                                     *)
(***************************************************************************)
SceneStep(l, op, s) == l.op = op /\ l.scene = s

C20_SceneIsolation ==
  [][/\ \A s \in Scenes :
          /\ SceneStep(last', "exit_scene", s)
               => /\ s \in DOMAIN saved_blits'
                  /\ saved_blits'[s] = static_blits
                  /\ static_blits' = EmptyDict
          /\ (/\ s \in DOMAIN saved_blits
              /\ ~SceneStep(last', "exit_scene", s)
              /\ ~SceneStep(last', "enter_scene", s))
               => /\ s \in DOMAIN saved_blits'
                  /\ saved_blits'[s] = saved_blits[s]
          /\ SceneStep(last', "enter_scene", s)
               => /\ s \notin DOMAIN saved_blits'
                  /\ static_blits' = IF s \in DOMAIN saved_blits THEN saved_blits[s]
                                     ELSE static_blits
                  /\ (last.op = "exit_scene" /\ s \notin DOMAIN saved_blits)
                       => static_blits' = EmptyDict
     /\ last'.op \in {"static_blit", "remove_static_blit", "draw"}
          => UNCHANGED saved_blits]_vars

\* scene S is back after scene T had its turn: each has its own entry for s1,
\* and T's is saved under T
C20_Witness ==
  /\ SceneStep(last, "enter_scene", "S")
  /\ ~last.resumed
  /\ "T" \in DOMAIN saved_blits
  /\ "s1" \in DOMAIN saved_blits["T"]
  /\ "s1" \in DOMAIN static_blits
  /\ "s2" \in DOMAIN static_blits
  /\ static_blits["s1"] # saved_blits["T"]["s1"]
  /\ "s2" \notin DOMAIN saved_blits["T"]

====
